---- MODULE Spec2Model ----
(***************************************************************************)
(* Model of ksiga/fsig.py: calculate_relative_entropy with the sparse      *)
(* multi-order join and relative entropy (_calculate_re_vectorize), the    *)
(* common-feature estimators, the Shannon diversity estimators with        *)
(* binning(), the cumulative relative entropy series (calculate_cre_kmer), *)
(* the threshold selector (_find_yintercept) and calculate_ofc_kmer.       *)
(*                                                                         *)
(* Real numbers are kept exact: a quotient is a pair <<num, den>>, a sum   *)
(* of logarithmic terms is kept as the collection of its terms.  numpy's   *)
(* division by zero yields inf/nan and a warning, never an exception; the  *)
(* model records that as a returned, non-finite value.                     *)
(***************************************************************************)
EXTENDS Integers, Sequences, FiniteSets, Bags, TLC

VARIABLES
    \* ---- relative entropy (calculate_relative_entropy) ----
    pcRE,            \* "call" | "start" | "done" | "raised" | "idle"
    ksize,           \* calculate_relative_entropy's ksize
    store,           \* the index file: its vectors of orders ksize, ksize-1, ksize-2
    requested,       \* the orders asked of the store so far
    array0,          \* order-k sparse vector     [indices, data, shape]
    array1,          \* order-(k-1) sparse vector
    array2,          \* order-(k-2) sparse vector
    joined,          \* the aligned arrays ARes, FRes, BRes, MRes (or the error)
    relativeEntropy, \* what _calculate_re_vectorize hands back
    \* ---- common feature (batch, streaming) ----
    stores,          \* the genomes' sparse vectors at the fixed k, in file order
    pcBatch,         \* "start" | "done" | "idle"
    batchResult,     \* calculate_average_common_feature's array
    pcLow,           \* "loop" | "done" | "idle"
    li,              \* lowmem: outer loop index i (0-based)
    lj,              \* lowmem: inner loop index j (0-based)
    rowVal,          \* lowmem: running sum of the row
    vals,            \* lowmem: the finished rows
    memoize,         \* lowmem: the pair table, <<i, j>> -> value
    computed,        \* lowmem: the pairs whose intersection was computed, in order
    lowmemResult,    \* lowmem_calculate_average_common_feature's array
    \* ---- Shannon diversity (batch, binned) ----
    binsize,         \* binning()'s bin size
    pcShBatch,       \* "start" | "done" | "idle"
    shannonBatch,    \* calculate_ofc_shannon's sum
    pcSh,            \* "loop" | "done" | "idle"
    binI,            \* binning(): the generator's index i
    bins,            \* binning(): the chunks yielded so far
    shannon,         \* lowmem_calculate_ofc_shannon's running sum
    \* ---- threshold selector (_find_yintercept) ----
    pcSel,           \* "start" | "done" | "idle"
    selX,            \* x: the k values
    selY,            \* y: the metric values
    selPercent,      \* percent
    selResult,       \* the returned x, or the exception raised
    \* ---- cumulative relative entropy (calculate_cre_kmer) ----
    pcCre,           \* "loop" | "done" | "idle"
    start_k,
    stop_k,
    relEntropies,    \* the per-k relative entropies collected so far
    cre,             \* the CRE series
    suggestKmer,     \* what _find_yintercept gave for the CRE series
    \* ---- observed feature count (calculate_ofc_kmer) ----
    pcOfc,           \* "start" | "done" | "idle"
    ofc_start_k,     \* calculate_ofc_kmer's start_k
    ofc_stop_k,      \* calculate_ofc_kmer's stop_k
    ofcResult        \* the returned (percentage, kmer), or the exception raised

reVars == <<pcRE, ksize, store, requested, array0, array1, array2, joined, relativeEntropy>>
acfVars == <<stores, pcBatch, batchResult, pcLow, li, lj, rowVal, vals, memoize,
             computed, lowmemResult>>
shVars == <<binsize, pcShBatch, shannonBatch, pcSh, binI, bins, shannon>>
selVars == <<pcSel, selX, selY, selPercent, selResult>>
creVars == <<pcCre, start_k, stop_k, relEntropies, cre, suggestKmer>>
ofcVars == <<pcOfc, ofc_start_k, ofc_stop_k, ofcResult>>
vars == <<reVars, acfVars, shVars, selVars, creVars, ofcVars>>

----------------------------------------------------------------------------
(* Bounds of the explored inputs. *)
KSize == 3
MinKSize == 2
MaxSeqLen == 6
MaxCount == 2
MaxKey == 1
MaxGenomes == 3
MaxBin == 2
MaxPoints == 5
MaxA == 2
MaxB == 2
LowK == 3
MaxSpan == 3
MaxRE == 1

(* Program constants. *)
Radix == 4
DefaultBinSize == 50
GridPoints == 500
MinCubicPoints == 4
CrePercent == 10

Digits == {0, 1}          \* the letters (A, C) the synthetic genomes use
None == "None"

----------------------------------------------------------------------------
(* Generic helpers. *)
Range(s) == {s[i] : i \in 1..Len(s)}

Min(S) == CHOOSE m \in S : \A x \in S : m <= x
Max(S) == CHOOSE m \in S : \A x \in S : m >= x

RECURSIVE SortedSeq(_)
SortedSeq(S) == IF S = {} THEN <<>>
                ELSE LET m == Min(S) IN <<m>> \o SortedSeq(S \ {m})

\* the sum of a sequence, by halves
RECURSIVE SumSeq(_)
SumSeq(s) == IF Len(s) = 0 THEN 0
             ELSE IF Len(s) = 1 THEN s[1]
             ELSE LET h == Len(s) \div 2
                  IN  SumSeq(SubSeq(s, 1, h)) + SumSeq(SubSeq(s, h + 1, Len(s)))

\* the sequence f, with every element worked out once
AsSeq(f) == SubSeq(f, 1, Len(f))

SeqsBetween(S, lo, hi) == UNION {[1..m -> S] : m \in lo..hi}

RemoveAt(s, p) == [i \in 1..(Len(s) - 1) |-> IF i < p THEN s[i] ELSE s[i + 1]]

----------------------------------------------------------------------------
(* The signature store: k-mer keys are base-4 numerals, first letter most  *)
(* significant; a sparse vector keeps its keys sorted.                     *)
RECURSIVE encode(_)
encode(mer) == IF mer = <<>> THEN 0
               ELSE encode(SubSeq(mer, 1, Len(mer) - 1)) * Radix + mer[Len(mer)]

KmerAt(genome, i, k) == encode(SubSeq(genome, i, i + k - 1))

get_sparse_array(genome, k) ==
    LET n    == Len(genome) - k + 1
        keys == {KmerAt(genome, i, k) : i \in 1..n}
        ind  == SortedSeq(keys)
    IN  [indices |-> ind,
         data    |-> [p \in 1..Len(ind) |->
                         Cardinality({i \in 1..n : KmerAt(genome, i, k) = ind[p]})],
         shape   |-> Radix ^ k]

(* The index of a uniform distribution: every key of the order-k key space *)
(* with the same count.                                                    *)
UniformVector(k, c) ==
    [indices |-> AsSeq([p \in 1..(Radix ^ k) |-> p - 1]),
     data    |-> AsSeq([p \in 1..(Radix ^ k) |-> c]),
     shape   |-> Radix ^ k]

(* A lower-order vector as an incomplete or re-counted index may hold it:  *)
(* the consistent vector, one key missing, or one count replaced.          *)
Variants(vec, counts) ==
    {vec}
    \cup {[vec EXCEPT !.indices = RemoveAt(vec.indices, p),
                      !.data    = RemoveAt(vec.data, p)] : p \in 1..Len(vec.indices)}
    \cup {[vec EXCEPT !.data[p] = c] : p \in 1..Len(vec.indices), c \in counts}

----------------------------------------------------------------------------
(* kmerutil / sparse_util helpers used by the join. *)
RECURSIVE ILog(_, _)
ILog(n, b) == IF n < b THEN 0 ELSE 1 + ILog(n \div b, b)

\* trimFront(khashs, ksize): drop the first letter of every key
trimFront(khashs, ks) ==
    AsSeq([p \in 1..Len(khashs) |-> khashs[p] % (Radix ^ (ks - 1))])

\* trimBack(khashs): drop the last letter of every key
trimBack(khashs) == AsSeq([p \in 1..Len(khashs) |-> khashs[p] \div Radix])

\* su.searchsorted(arr, vals): leftmost insertion point (0-based) of every value
searchsorted(arr, values) ==
    AsSeq([p \in 1..Len(values) |->
              Cardinality({q \in 1..Len(arr) : arr[q] < values[p]})])

\* np.argsort(h): positions (1-based here) in ascending order of value
argsort(h) ==
    LET rank == AsSeq([q \in 1..Len(h) |->
                    1 + Cardinality({r \in 1..Len(h) :
                          h[r] < h[q] \/ (h[r] = h[q] /\ r < q)})])
    IN  AsSeq([p \in 1..Len(h) |-> CHOOSE q \in 1..Len(h) : rank[q] = p])

\* a[idx] with idx a permutation (positions, 1-based)
Permute(a, idx) == AsSeq([p \in 1..Len(idx) |-> a[idx[p]]])

\* data[ix] with ix 0-based indexes: IndexError when one is out of bounds
InBounds(data, ix) == \A p \in 1..Len(ix) : ix[p] < Len(data)
Take(data, ix) == AsSeq([p \in 1..Len(ix) |-> data[ix[p] + 1]])

----------------------------------------------------------------------------
(* _calculate_re_vectorize, lines 150-181: the join. *)
KsizeOf(a1) == ILog(a1.shape, Radix) + 1

FrontIdxSorted(a0, a1) ==
    LET fHash == trimFront(a0.indices, KsizeOf(a1))
    IN  searchsorted(a1.indices, Permute(fHash, argsort(fHash)))

\* mutant: the sort permutation is applied again instead of its inverse
RestoreOrderNotInverted(sortedIx, idx) == Permute(sortedIx, idx)

\* lines 158-160 and 173-175: inv_idx = np.argsort(idx); sorted[inv_idx]
RestoreOrder(sortedIx, idx) == Permute(sortedIx, argsort(idx))

fIdxOf(a0, a1) ==
    LET fHash == trimFront(a0.indices, KsizeOf(a1))
    IN  RestoreOrder(FrontIdxSorted(a0, a1), argsort(fHash))

bIdxOf(a0, a1) == searchsorted(a1.indices, trimBack(a0.indices))

mIdxOf(a0, a1, a2) ==
    LET mHash == trimBack(trimFront(a0.indices, KsizeOf(a1)))
        idx   == argsort(mHash)
    IN  RestoreOrder(searchsorted(a2.indices, Permute(mHash, idx)), idx)

NoJoin(status) ==
    [status |-> status, ARes |-> <<>>, FRes |-> <<>>, BRes |-> <<>>, MRes |-> <<>>]

Join(a0, a1, a2) ==
    LET fIdx == fIdxOf(a0, a1)
        bIdx == bIdxOf(a0, a1)
        mIdx == mIdxOf(a0, a1, a2)
    IN  IF /\ InBounds(a1.data, fIdx)
           /\ InBounds(a1.data, bIdx)
           /\ InBounds(a2.data, mIdx)
        THEN [status |-> "ok",
              ARes |-> a0.data,
              FRes |-> Take(a1.data, fIdx),
              BRes |-> Take(a1.data, bIdx),
              MRes |-> Take(a2.data, mIdx)]
        ELSE NoJoin("IndexError")

(* Lines 183-203: the factored formula.  A term is kept as its three       *)
(* quotients: weight A/norm0, observation/expectation A*M/(F*B), and       *)
(* normFactor norm1^2/(norm2*norm0).  finite is FALSE when numpy has       *)
(* produced inf or nan on the way (a zero divisor in a term that is        *)
(* summed).                                                                *)
\* lines 187-190: observation / expectation, expectation = (FRes * BRes) / MRes
ObservationOverExpectation(A, F, B, M) == <<A * M, F * B>>

\* mutant: norm1 is not squared
NormFactorNotSquared(norm0, norm1, norm2) == <<norm1, norm2 * norm0>>

\* line 189: normFactor = (norm1 ** 2) / (norm2 * norm0)
NormFactor(norm0, norm1, norm2) == <<norm1 * norm1, norm2 * norm0>>

Entropy(a0, a1, a2, j) ==
    LET norm0 == SumSeq(a0.data)
        norm1 == SumSeq(a1.data)
        norm2 == SumSeq(a2.data)
        n     == Len(j.ARes)
        zeroDiv == \/ \E i \in 1..n : j.MRes[i] = 0 \/ j.FRes[i] * j.BRes[i] = 0
                   \/ norm2 * norm0 = 0
                   \/ norm0 = 0
    IN  [status  |-> "returned",
         finite  |-> (n = 0) \/ ~zeroDiv,
         zeroDiv |-> zeroDiv,
         terms   |-> IF zeroDiv THEN <<>>
                     ELSE [i \in 1..n |->
                             [w  |-> <<j.ARes[i], norm0>>,
                              oe |-> ObservationOverExpectation(j.ARes[i], j.FRes[i],
                                                                j.BRes[i], j.MRes[i]),
                              nf |-> NormFactor(norm0, norm1, norm2)]]]

NoEntropy(status) ==
    [status |-> status, finite |-> FALSE, zeroDiv |-> FALSE, terms |-> <<>>]

----------------------------------------------------------------------------
(* Components that a specification does not run stay idle. *)
IdleRE ==
    /\ pcRE = "idle"
    /\ ksize = 0 /\ store = None /\ requested = <<>>
    /\ array0 = None /\ array1 = None /\ array2 = None
    /\ joined = NoJoin("none")
    /\ relativeEntropy = NoEntropy("none")

NoSum == [nan |-> FALSE, terms |-> EmptyBag]

IdleSh ==
    /\ binsize = 0
    /\ pcShBatch = "idle" /\ pcSh = "idle"
    /\ shannonBatch = NoSum /\ shannon = NoSum
    /\ binI = 0 /\ bins = <<>>

NoResult == [kind |-> "none", idx |-> 0, x |-> <<0, 1>>]

IdleSel ==
    /\ pcSel = "idle"
    /\ selX = <<>> /\ selY = <<>> /\ selPercent = 0
    /\ selResult = NoResult

IdleCre ==
    /\ pcCre = "idle"
    /\ start_k = 0 /\ stop_k = 0
    /\ relEntropies = <<>> /\ cre = <<>>
    /\ suggestKmer = NoResult

NoOfc(kind) == [kind |-> kind, percentage |-> <<>>, kmer |-> 0]

IdleOfc ==
    /\ pcOfc = "idle"
    /\ ofc_start_k = 0 /\ ofc_stop_k = 0
    /\ ofcResult = NoOfc("none")

IdleACF ==
    /\ pcBatch = "idle" /\ pcLow = "idle"
    /\ batchResult = <<>> /\ lowmemResult = <<>>
    /\ li = 0 /\ lj = 0 /\ rowVal = 0
    /\ vals = <<>> /\ memoize = <<>> /\ computed = <<>>

----------------------------------------------------------------------------
(* calculate_relative_entropy (lines 32-38) on the index of a genome that  *)
(* holds at least one k-mer.  Neither it nor its callers look at ksize     *)
(* before the three vectors are asked of the store.  What the store does   *)
(* when asked for an order below 1 is its own business: it answers with a  *)
(* vector or raises; Missing (a vector of no shape) stands for an order    *)
(* the store raises on.                                                    *)
Missing == [indices |-> <<>>, data |-> <<>>, shape |-> 0]

InitRE ==
    /\ IdleOfc
    /\ pcRE = "call"
    /\ ksize \in MinKSize..KSize
    /\ \/ \E genome \in SeqsBetween(Digits, KSize, MaxSeqLen) :
             \E a1 \in Variants(get_sparse_array(genome, ksize - 1), 1..MaxCount),
                a2 \in Variants(get_sparse_array(genome, ksize - 2), 0..MaxCount)
                         \cup (IF ksize - 2 < 1 THEN {Missing} ELSE {}) :
                store = [a0 |-> get_sparse_array(genome, ksize), a1 |-> a1, a2 |-> a2]
       \/ \E c \in 1..MaxCount :
             store = [a0 |-> UniformVector(ksize, c),
                      a1 |-> UniformVector(ksize - 1, Radix * c),
                      a2 |-> UniformVector(ksize - 2, Radix * Radix * c)]
    /\ requested = <<>>
    /\ array0 = None /\ array1 = None /\ array2 = None
    /\ joined = NoJoin("none")
    /\ relativeEntropy = NoEntropy("none")
    /\ stores = <<>>
    /\ IdleACF
    /\ IdleSh
    /\ IdleSel
    /\ IdleCre

\* lines 32-36: store.get_sparse_array(ksize), (ksize-1), (ksize-2)
CalculateRelativeEntropy ==
    /\ pcRE = "call"
    /\ requested' = <<ksize, ksize - 1, ksize - 2>>
    /\ array0' = store.a0
    /\ array1' = store.a1
    /\ IF store.a2 = Missing
       THEN /\ pcRE' = "raised"
            /\ relativeEntropy' = NoEntropy("KeyError")
            /\ UNCHANGED array2
       ELSE /\ pcRE' = "start"
            /\ array2' = store.a2
            /\ UNCHANGED relativeEntropy
    /\ UNCHANGED <<ksize, store, joined>>
    /\ UNCHANGED <<acfVars, shVars, selVars, creVars, ofcVars>>

\* line 38: _calculate_re_vectorize(array0, array1, array2)
CalculateReVectorize ==
    /\ pcRE = "start"
    /\ joined' = Join(array0, array1, array2)
    /\ relativeEntropy' = IF joined'.status = "ok"
                          THEN Entropy(array0, array1, array2, joined')
                          ELSE NoEntropy("IndexError")
    /\ pcRE' = "done"
    /\ UNCHANGED <<ksize, store, requested, array0, array1, array2>>
    /\ UNCHANGED <<acfVars, shVars, selVars, creVars, ofcVars>>

NextRE ==
    \/ CalculateRelativeEntropy
    \/ CalculateReVectorize

SpecRE == InitRE /\ [][NextRE]_vars

----------------------------------------------------------------------------
(* The reference of _calculate_re (lines 68-101): decode the key, cut the  *)
(* string, encode the pieces and look each one up.                         *)
RECURSIVE decode(_, _)
decode(loc, ks) == IF ks = 0 THEN <<>>
                   ELSE decode(loc \div Radix, ks - 1) \o <<loc % Radix>>

merFront(mer)  == SubSeq(mer, 1, Len(mer) - 1)
merBack(mer)   == SubSeq(mer, 2, Len(mer))
merMiddle(mer) == SubSeq(mer, 2, Len(mer) - 1)

HasKey(vec, key) == \E p \in 1..Len(vec.indices) : vec.indices[p] = key
Lookup(vec, key) == vec.data[CHOOSE p \in 1..Len(vec.indices) : vec.indices[p] = key]

Mer0(i) == decode(array0.indices[i], KsizeOf(array1))

\* every affix and middle of an observed k-mer is stored in its lower-order vector
AffixesPresent ==
    \A i \in 1..Len(array0.indices) :
        /\ HasKey(array1, encode(merFront(Mer0(i))))
        /\ HasKey(array1, encode(merBack(Mer0(i))))
        /\ HasKey(array2, encode(merMiddle(Mer0(i))))

\* the de Bruijn invariant: they are stored with a nonzero count
DeBruijn ==
    /\ AffixesPresent
    /\ \A p \in 1..Len(array1.data) : array1.data[p] > 0
    /\ \A p \in 1..Len(array2.data) : array2.data[p] > 0

AlignedAs(front(_), back(_)) ==
    /\ joined.status = "ok"
    /\ Len(joined.ARes) = Len(array0.indices)
    /\ Len(joined.FRes) = Len(array0.indices)
    /\ Len(joined.BRes) = Len(array0.indices)
    /\ Len(joined.MRes) = Len(array0.indices)
    /\ \A i \in 1..Len(array0.indices) :
        /\ joined.ARes[i] = Lookup(array0, array0.indices[i])
        /\ joined.FRes[i] = Lookup(array1, encode(front(Mer0(i))))
        /\ joined.BRes[i] = Lookup(array1, encode(back(Mer0(i))))
        /\ joined.MRes[i] = Lookup(array2, encode(merMiddle(Mer0(i))))

ZeroDenominator ==
    \/ \E i \in 1..Len(joined.MRes) : joined.MRes[i] = 0
    \/ SumSeq(array0.data) = 0
    \/ SumSeq(array2.data) = 0

C10_ZeroDenominatorFails ==
    (pcRE = "done" /\ joined.status = "ok" /\ ZeroDenominator) =>
        relativeEntropy.status = "DomainError"

(* C13: when every k-mer of the order-k key space is observed with the     *)
(* same count and the lower-order vectors are the consistent sums, A*M =   *)
(* F*B for every k-mer and norm1^2 = norm2*norm0, so every term of the     *)
(* factored formula is 0 and the relative entropy returned is 0.           *)
FullKeySpace(vec) ==
    /\ Len(vec.indices) = vec.shape
    /\ \A p \in 1..Len(vec.indices) : vec.indices[p] = p - 1

\* each count of lo is the sum of the counts of the keys of hi it is the drop-last affix of
ConsistentSums(lo, hi) ==
    /\ FullKeySpace(lo)
    /\ \A q \in 1..Len(lo.indices) :
          lo.data[q] = SumSeq([p \in 1..Len(hi.indices) |->
                                  IF hi.indices[p] \div Radix = lo.indices[q]
                                  THEN hi.data[p] ELSE 0])

IsUniform ==
    /\ FullKeySpace(array0)
    /\ array0.shape = Radix ^ ksize
    /\ \A p \in 1..Len(array0.data) : array0.data[p] = array0.data[1] /\ array0.data[p] > 0
    /\ ConsistentSums(array1, array0)
    /\ ConsistentSums(array2, array1)

\* log2(1) + log2(1): the term's two quotients are both 1
ZeroTerm(t) == t.oe[1] = t.oe[2] /\ t.nf[1] = t.nf[2]

C13_UniformRelativeEntropyZero ==
    (pcRE = "done" /\ IsUniform) =>
        /\ relativeEntropy.status = "returned"
        /\ relativeEntropy.finite
        /\ Len(relativeEntropy.terms) = Radix ^ ksize
        /\ \A i \in 1..Len(relativeEntropy.terms) : ZeroTerm(relativeEntropy.terms[i])

C13_Witness ==
    /\ pcRE = "done" /\ IsUniform
    /\ ksize = KSize /\ array0.data[1] = MaxCount
    /\ joined.FRes[1] = Radix * MaxCount /\ joined.MRes[1] = Radix * Radix * MaxCount
    /\ Len(relativeEntropy.terms) = Radix ^ KSize
    /\ \A i \in 1..Len(relativeEntropy.terms) : ZeroTerm(relativeEntropy.terms[i])

----------------------------------------------------------------------------
(* Common-feature estimators.  A store is the sparse vector of one genome  *)
(* at the fixed k; a synthetic store holds key c with count c + 1.         *)
StoreOf(keys) ==
    LET ind == SortedSeq(keys)
    IN  [indices |-> ind, data |-> [p \in 1..Len(ind) |-> ind[p] + 1]]

AllStores == {StoreOf(keys) : keys \in SUBSET (0..MaxKey)}

\* rebuild_sparse_matrix(stores, ksize): one dense row of counts per store
rebuild_sparse_matrix(sts) ==
    [r \in 1..Len(sts) |->
        [c \in 0..MaxKey |-> IF HasKey(sts[r], c) THEN Lookup(sts[r], c) ELSE 0]]

\* csr_matrix.data = np.ones(...): every stored count becomes 1
Ones(m) == [r \in 1..Len(m) |-> [c \in 0..MaxKey |-> IF m[r][c] # 0 THEN 1 ELSE 0]]

RECURSIVE SumFn(_, _)
SumFn(f, D) == IF D = {} THEN 0
               ELSE LET d == CHOOSE x \in D : TRUE IN f[d] + SumFn(f, D \ {d})

\* csr_matrix.dot(csr_matrix[i].transpose()): one product per row
Dot(m, i) == [r \in 1..Len(m) |-> SumFn([c \in 0..MaxKey |-> m[r][c] * m[i][c]], 0..MaxKey)]

\* mutant: the self term is kept
ZeroSelfKept(val, i) == val

\* val[i] = 0
ZeroSelf(val, i) == [val EXCEPT ![i] = 0]

\* np.array(vals) / norm: each quotient kept as <<numerator, denominator>>
DivideBy(vs, norm) == [p \in 1..Len(vs) |-> <<vs[p], norm>>]

calculate_average_common_feature(sts) ==
    LET m    == Ones(rebuild_sparse_matrix(sts))
        norm == Len(m) - 1
    IN  DivideBy([i \in 1..Len(m) |-> SumSeq(ZeroSelf(Dot(m, i), i))], norm)

\* len(set(mi.indices).intersection(mj.indices))
pair_calculate_average_common_feature(store1, store2) ==
    Cardinality(Range(store1.indices) \cap Range(store2.indices))

InitACF ==
    /\ IdleOfc
    /\ IdleRE
    /\ IdleSh
    /\ IdleSel
    /\ IdleCre
    /\ \E n \in 1..MaxGenomes : stores \in [1..n -> AllStores]
    /\ pcBatch = "start" /\ batchResult = <<>>
    /\ pcLow = "loop" /\ lowmemResult = <<>>
    /\ li = 0 /\ lj = 0 /\ rowVal = 0
    /\ vals = <<>> /\ memoize = <<>> /\ computed = <<>>

lowVars == <<pcLow, li, lj, rowVal, vals, memoize, computed, lowmemResult>>

CalculateAverageCommonFeature ==
    /\ pcBatch = "start"
    /\ batchResult' = calculate_average_common_feature(stores)
    /\ pcBatch' = "done"
    /\ UNCHANGED <<stores, lowVars>>
    /\ UNCHANGED <<reVars, shVars, selVars, creVars, ofcVars>>

(* lowmem_calculate_average_common_feature, one pass of the inner loop     *)
(* body (lines 253-267).  The value read at line 257 is overwritten at     *)
(* line 263; both files are stores[i] (lines 259-260).                     *)
LowmemSkipSelf ==
    /\ pcLow = "loop" /\ li < Len(stores) /\ lj < Len(stores)
    /\ li = lj
    /\ lj' = lj + 1
    /\ UNCHANGED <<stores, pcBatch, batchResult, pcLow, li, rowVal, vals, memoize,
                   computed, lowmemResult>>
    /\ UNCHANGED <<reVars, shVars, selVars, creVars, ofcVars>>

LowmemPair ==
    /\ pcLow = "loop" /\ li < Len(stores) /\ lj < Len(stores)
    /\ li # lj
    /\ (lj < li) => (<<lj, li>> \in DOMAIN memoize)
    /\ LET fi  == stores[li + 1]
           fj  == stores[li + 1]
           val == pair_calculate_average_common_feature(fi, fj)
       IN  /\ memoize' = [p \in (DOMAIN memoize) \cup {<<li, lj>>} |->
                             IF p = <<li, lj>> THEN val ELSE memoize[p]]
           /\ rowVal' = rowVal + val
           /\ computed' = Append(computed, <<li, lj>>)
    /\ lj' = lj + 1
    /\ UNCHANGED <<stores, pcBatch, batchResult, pcLow, li, vals, lowmemResult>>
    /\ UNCHANGED <<reVars, shVars, selVars, creVars, ofcVars>>

LowmemRowEnd ==
    /\ pcLow = "loop" /\ li < Len(stores) /\ lj = Len(stores)
    /\ vals' = Append(vals, rowVal)
    /\ li' = li + 1 /\ lj' = 0 /\ rowVal' = 0
    /\ UNCHANGED <<stores, pcBatch, batchResult, pcLow, memoize, computed, lowmemResult>>
    /\ UNCHANGED <<reVars, shVars, selVars, creVars, ofcVars>>

LowmemReturn ==
    /\ pcLow = "loop" /\ li = Len(stores)
    /\ lowmemResult' = DivideBy(vals, Len(stores) - 1)
    /\ pcLow' = "done"
    /\ UNCHANGED <<stores, pcBatch, batchResult, li, lj, rowVal, vals, memoize, computed>>
    /\ UNCHANGED <<reVars, shVars, selVars, creVars, ofcVars>>

NextACF ==
    \/ CalculateAverageCommonFeature
    \/ LowmemSkipSelf
    \/ LowmemPair
    \/ LowmemRowEnd
    \/ LowmemReturn

SpecACF == InitACF /\ [][NextACF]_vars

(* Exact comparison of quotients. *)
SameQuotient(a, b) == a[1] * b[2] = b[1] * a[2]
QuotientIs(q, num, den) == q[2] # 0 /\ q[1] * den = num * q[2]

Keys(i) == Range(stores[i].indices)
SharedWithOthers(i) ==
    SumFn([j \in 1..Len(stores) |-> IF j = i THEN 0 ELSE Cardinality(Keys(i) \cap Keys(j))],
          1..Len(stores))

(* C2: for N >= 2 genomes the batch estimator returns N entries in file    *)
(* order, entry i being (sum over j # i of |keys(i) /\ keys(j)|) / (N-1),  *)
(* counts clipped to presence; 3 genomes that pairwise share exactly m     *)
(* keys give m for every entry.                                            *)
C2_BatchCommonFeature ==
    (pcBatch = "done" /\ Len(stores) >= 2) =>
        /\ Len(batchResult) = Len(stores)
        /\ \A i \in 1..Len(stores) :
              QuotientIs(batchResult[i], SharedWithOthers(i), Len(stores) - 1)
        /\ \A m \in 0..(MaxKey + 1) :
              (/\ Len(stores) = 3
               /\ \A i, j \in 1..3 : i # j => Cardinality(Keys(i) \cap Keys(j)) = m)
              => \A i \in 1..3 : QuotientIs(batchResult[i], m, 1)

C2_Witness ==
    /\ pcBatch = "done" /\ Len(stores) = 3
    /\ \A i, j \in 1..3 : i # j => Cardinality(Keys(i) \cap Keys(j)) = 1
    /\ \E i \in 1..3 : \E p \in 1..Len(stores[i].data) : stores[i].data[p] > 1
    /\ \A i \in 1..3 : batchResult[i] = <<2, 2>>

(* C3: the streaming estimator returns the batch estimator's array, entry  *)
(* by entry, and each value it accumulates for (i, j) is the pairwise      *)
(* estimator's value for genomes i and j.                                  *)
C3_StreamingEqualsBatch ==
    (pcBatch = "done" /\ pcLow = "done" /\ Len(stores) >= 2) =>
        /\ Len(lowmemResult) = Len(batchResult)
        /\ \A i \in 1..Len(stores) : SameQuotient(lowmemResult[i], batchResult[i])
        /\ \A p \in DOMAIN memoize :
              memoize[p] = pair_calculate_average_common_feature(stores[p[1] + 1],
                                                                 stores[p[2] + 1])

(* C14: in one call of the streaming estimator the intersection of each   *)
(* unordered pair {i, j} is computed exactly once, when i < j; when the    *)
(* pair is met again with j < i the stored memoize[(j, i)] is what the row *)
(* sum receives, and the memo keeps one entry per pair.                    *)
MemoizedRow(i) ==
    SumFn([j \in 0..(Len(stores) - 1) |->
              IF j < i THEN memoize[<<j, i>>]
              ELSE IF j > i THEN memoize[<<i, j>>]
              ELSE 0],
          0..(Len(stores) - 1))

C14_PairComputedOnce ==
    /\ \A p \in 1..Len(computed) : computed[p][1] < computed[p][2]
    /\ \A p, q \in 1..Len(computed) :
          (p # q) => {computed[p][1], computed[p][2]} # {computed[q][1], computed[q][2]}
    /\ \A key \in DOMAIN memoize : key[1] < key[2]
    /\ (pcLow = "done") =>
          \A i \in 0..(Len(stores) - 1) : vals[i + 1] = MemoizedRow(i)

----------------------------------------------------------------------------
(* Shannon diversity.  The value -sum(p * ln p), p = nnz / 4^k, is kept as *)
(* the bag of the nnz of its terms; nan records a term with nnz = 0        *)
(* (0 * ln 0 is nan in numpy and makes the sum nan).                       *)
getnnz(sts) == [r \in 1..Len(sts) |-> Len(sts[r].indices)]

RECURSIVE TermBag(_)
TermBag(nnz) == IF nnz = <<>> THEN EmptyBag
                ELSE SetToBag({nnz[1]}) (+) TermBag(Tail(nnz))

\* np.sum(prob * np.log(prob)) * -1
ShannonSum(sts) ==
    LET nnz == getnnz(sts)
    IN  [nan |-> \E r \in 1..Len(nnz) : nnz[r] = 0, terms |-> TermBag(nnz)]

\* shannon += binAns
AddSum(a, b) == [nan |-> a.nan \/ b.nan, terms |-> a.terms (+) b.terms]

calculate_ofc_shannon(sts) == ShannonSum(sts)

\* mutant: the slice stops one element early
SliceShort(lst, i, size) ==
    SubSeq(lst, i + 1, IF i + size - 1 < Len(lst) THEN i + size - 1 ELSE Len(lst))

\* binning(): lst[i:i+binsize], i 0-based
Slice(lst, i, size) ==
    SubSeq(lst, i + 1, IF i + size < Len(lst) THEN i + size ELSE Len(lst))

(* lowmem_calculate_ofc_shannon calls binning(stores) with the default bin *)
(* size; the smaller bin sizes exercise binning() on short lists.          *)
InitSh ==
    /\ IdleOfc
    /\ IdleRE
    /\ IdleACF
    /\ IdleSel
    /\ IdleCre
    /\ \E n \in 1..MaxGenomes : stores \in [1..n -> AllStores]
    /\ binsize \in (1..MaxBin) \cup {DefaultBinSize}
    /\ pcShBatch = "start" /\ shannonBatch = NoSum
    /\ pcSh = "loop" /\ shannon = NoSum
    /\ binI = 0 /\ bins = <<>>

CalculateOfcShannon ==
    /\ pcShBatch = "start"
    /\ shannonBatch' = calculate_ofc_shannon(stores)
    /\ pcShBatch' = "done"
    /\ UNCHANGED <<binsize, pcSh, binI, bins, shannon>>
    /\ UNCHANGED <<reVars, acfVars, selVars, creVars, ofcVars>>

\* one pass of the loop of lines 300-306 over the next chunk of binning()
LowmemShannonBin ==
    /\ pcSh = "loop" /\ binI < Len(stores)
    /\ LET storebin == Slice(stores, binI, binsize)
       IN  /\ bins' = Append(bins, storebin)
           /\ shannon' = AddSum(shannon, ShannonSum(storebin))
    /\ binI' = binI + binsize
    /\ UNCHANGED <<binsize, pcShBatch, shannonBatch, pcSh>>
    /\ UNCHANGED <<reVars, acfVars, selVars, creVars, ofcVars>>

LowmemShannonReturn ==
    /\ pcSh = "loop" /\ binI >= Len(stores)
    /\ pcSh' = "done"
    /\ UNCHANGED <<binsize, pcShBatch, shannonBatch, binI, bins, shannon>>
    /\ UNCHANGED <<reVars, acfVars, selVars, creVars, ofcVars>>

NextSh ==
    \/ CalculateOfcShannon
    \/ LowmemShannonBin
    \/ LowmemShannonReturn

SpecSh == InitSh /\ [][NextSh]_vars

RECURSIVE Concat(_)
Concat(ss) == IF ss = <<>> THEN <<>> ELSE ss[1] \o Concat(Tail(ss))

(* C4: for every bin size >= 1 the chunks of binning() are non-empty, of   *)
(* at most the bin size, and concatenate to the input list in order, so    *)
(* the binned Shannon total equals the batch total.                        *)
C4_BinningInvariance ==
    /\ \A b \in 1..Len(bins) : Len(bins[b]) >= 1 /\ Len(bins[b]) <= binsize
    /\ (pcSh = "done") => Concat(bins) = stores
    /\ (pcSh = "done" /\ pcShBatch = "done") =>
          (shannon.nan = shannonBatch.nan /\ shannon.terms = shannonBatch.terms)

C4_Witness ==
    /\ pcSh = "done" /\ pcShBatch = "done"
    /\ Len(stores) = 3 /\ binsize = 2 /\ Len(bins) = 2 /\ Len(bins[2]) = 1
    /\ ~shannon.nan /\ shannon.terms = shannonBatch.terms
    /\ \E i, j \in 1..3 : Len(stores[i].indices) # Len(stores[j].indices)

----------------------------------------------------------------------------
(* _find_yintercept(x, y, percent).  x is a run of consecutive integers    *)
(* (np.arange), percent is positive.  Quotients are compared exactly.      *)
MaxOf(y) == Max(Range(y))
MinOf(y) == Min(Range(y))

\* cutoff = y.max() / percent
Cutoff(y, percent) == <<MaxOf(y), percent>>

\* v > q for a quotient q with positive denominator
Exceeds(v, q) == v * q[2] > q[1]

\* mutants of the range check: >= for >, and the comparison inverted
RangeExhaustedGe(y, percent) == MinOf(y) * percent >= MaxOf(y)
RangeExhaustedLt(y, percent) == MinOf(y) * percent < MaxOf(y)

\* line 461: y.min() > cutoff
RangeExhausted(y, percent) == Exceeds(MinOf(y), Cutoff(y, percent))

Sign(v) == IF v > 0 THEN 1 ELSE IF v < 0 THEN 0 - 1 ELSE 0

\* xn = np.linspace(x[0], x[-1], 500): xn[t] = x[0] + t * (x[-1] - x[0]) / 499
Grid(x, t) == <<x[1] * (GridPoints - 1) + t * (x[Len(x)] - x[1]), GridPoints - 1>>

(* interp1d(x, y, kind="cubic") needs four points.  A cubic spline through *)
(* data that lie on a straight line is that line, so for such y the        *)
(* samples yn are known exactly: YnScaled is yn[t] * 499.  For other data  *)
(* only the end samples yn[0] = y[0] and yn[-1] = y[-1] are taken as       *)
(* known.                                                                  *)
IsAffine(y) == \A i \in 2..(Len(y) - 1) : y[i + 1] - y[i] = y[i] - y[i - 1]

YnScaled(x, y, t) ==
    y[1] * (GridPoints - 1) + (y[2] - y[1]) * t * (x[Len(x)] - x[1])

\* np.sign(yn - cutoff) at grid index t
SignAt(x, y, percent, t) ==
    Sign(percent * YnScaled(x, y, t) - MaxOf(y) * (GridPoints - 1))

\* np.argwhere(np.diff(np.sign(yn - cutoff)) != 0)
SignChanges(x, y, percent) ==
    {t \in 0..(GridPoints - 2) : SignAt(x, y, percent, t + 1) # SignAt(x, y, percent, t)}

Raised(kind) == [kind |-> kind, idx |-> 0, x |-> <<0, 1>>]
Returned(x, t) == [kind |-> "value", idx |-> t, x |-> Grid(x, t)]

\* the sign changes the unknown interior samples may give, from the end samples
EndSignsDiffer(y, percent) ==
    Sign(percent * y[1] - MaxOf(y)) # Sign(percent * y[Len(y)] - MaxOf(y))

\* the outcomes of lines 459-471
find_yintercept(x, y, percent) ==
    IF RangeExhausted(y, percent) THEN {Raised("NotImplementedError")}
    ELSE IF Len(x) < MinCubicPoints THEN {Raised("ValueError")}
    ELSE IF IsAffine(y)
         THEN LET idx == SignChanges(x, y, percent)
              IN  IF idx = {} THEN {Raised("IndexError")}
                  ELSE {Returned(x, Min(idx))}
    ELSE IF EndSignsDiffer(y, percent)
         THEN {Returned(x, t) : t \in 0..(GridPoints - 2)}
    ELSE {Returned(x, t) : t \in 0..(GridPoints - 3)} \cup {Raised("IndexError")}

\* the percents explored: the callers pass 10
Percents == {2, 4, CrePercent, 200}

ScenarioX == <<3, 4, 5, 6, 7>>
ScenarioY == <<100, 80, 60, 40, 20>>

Arange(a, b) == [i \in 1..(b - a + 1) |-> a + i - 1]

InitSel ==
    /\ IdleOfc
    /\ IdleRE
    /\ stores = <<>>
    /\ IdleACF
    /\ IdleSh
    /\ IdleCre
    /\ pcSel = "start"
    /\ selResult = NoResult
    /\ selPercent \in Percents
    /\ \/ /\ selX = ScenarioX
          /\ selY = ScenarioY
       \/ \E n \in MinCubicPoints..MaxPoints, a \in (0 - MaxA)..MaxA, b \in (0 - MaxB)..MaxB :
             /\ selX = Arange(LowK, LowK + n - 1)
             /\ selY = [i \in 1..n |-> a + b * (i - 1)]

FindYIntercept ==
    /\ pcSel = "start"
    /\ selResult' \in find_yintercept(selX, selY, selPercent)
    /\ pcSel' = "done"
    /\ UNCHANGED <<selX, selY, selPercent>>
    /\ UNCHANGED <<reVars, acfVars, shVars, creVars, ofcVars>>

NextSel == FindYIntercept

SpecSel == InitSel /\ [][NextSel]_vars

\* min(y) > max(y) / percent, for the positive percent of the model
MinAboveCutoff ==
    \A i \in 1..Len(selY) : \A j \in 1..Len(selY) : selY[i] * selPercent > selY[j]

(* C5: _find_yintercept raises the range-exhausted (not implemented)       *)
(* error, returning no value, exactly when min(y) > max(y) / percent.      *)
C5_RangeCheck ==
    (pcSel = "done") =>
        ((selResult.kind = "NotImplementedError") <=> MinAboveCutoff)

C5_Witness ==
    /\ pcSel = "done"
    /\ selResult.kind = "NotImplementedError"
    /\ selPercent = CrePercent
    /\ selY[1] > selY[Len(selY)]

\* the returned x lies within [x_min, x_max]
InRange(x, r) == x[1] * r[2] <= r[1] /\ r[1] <= x[Len(x)] * r[2]

\* idx is the first grid index at which the sign of (yn - cutoff) changes
FirstSignChange(idx) ==
    /\ idx \in 0..(GridPoints - 2)
    /\ SignAt(selX, selY, selPercent, idx + 1) # SignAt(selX, selY, selPercent, idx)
    /\ \A t \in 0..(idx - 1) :
          SignAt(selX, selY, selPercent, t + 1) = SignAt(selX, selY, selPercent, t)

(* C6: when the range check passes, _find_yintercept returns a value: the  *)
(* x of the first sign change of (interpolated y - cutoff), within         *)
(* [x_min, x_max]; it ends in no other failure.                            *)
C6_ResultInRange ==
    (pcSel = "done" /\ ~MinAboveCutoff) =>
        /\ selResult.kind = "value"
        /\ InRange(selX, selResult.x)
        /\ FirstSignChange(selResult.idx)
        /\ selResult.x = Grid(selX, selResult.idx)

(* The part of C6 that holds: a returned value is the first sign change    *)
(* and lies in range.                                                      *)
ReturnedValueInRange ==
    (pcSel = "done" /\ selResult.kind = "value") =>
        /\ InRange(selX, selResult.x)
        /\ FirstSignChange(selResult.idx)

IsScenarioC ==
    selX = ScenarioX /\ selY = ScenarioY /\ selPercent = CrePercent

(* C7 as stated: for y = [100, 80, 60, 40, 20] over k = [3..7] and         *)
(* percent = 10 the selector returns an x strictly between 6 and 7.        *)
C7_ScenarioReturnsBetween6And7 ==
    (pcSel = "done" /\ IsScenarioC) =>
        /\ selResult.kind = "value"
        /\ 6 * selResult.x[2] < selResult.x[1]
        /\ selResult.x[1] < 7 * selResult.x[2]

(* C7 amended: for that series and percent = 10 the cutoff is 10 and       *)
(* min(y) = 20 lies above it, so the selector raises the range-exhausted   *)
(* error and returns no value.                                             *)
C7_ScenarioRangeExhausted ==
    (pcSel = "done" /\ IsScenarioC) => selResult.kind = "NotImplementedError"

C7_Witness ==
    /\ pcSel = "done" /\ IsScenarioC
    /\ Cutoff(selY, selPercent) = <<100, 10>>
    /\ selResult.kind = "NotImplementedError"

----------------------------------------------------------------------------
(* calculate_cre_kmer.  A relative entropy is an integer of REVals         *)
(* standing for the scalar calculate_relative_entropy returns.             *)
REVals == (0 - MaxRE)..MaxRE

\* mutant: no clipping
ClipNone(s) == s

\* np.clip(relEntropies, 0, np.inf)
Clip(s) == [i \in 1..Len(s) |-> IF s[i] < 0 THEN 0 ELSE s[i]]

\* mutant: the running sum leaves out the entry itself
CumSumExclusive(s) == [i \in 1..Len(s) |-> SumSeq(SubSeq(s, 1, i - 1))]

\* relEntropies.cumsum()
CumSum(s) == [i \in 1..Len(s) |-> SumSeq(SubSeq(s, 1, i))]

\* lines 390-395
CreSeries(res) ==
    LET clipped    == Clip(res)
        maximumVal == SumSeq(clipped)
        cum        == CumSum(clipped)
    IN  <<maximumVal>> \o [i \in 1..Len(cum) |-> maximumVal - cum[i]]

InitCre ==
    /\ IdleOfc
    /\ IdleRE
    /\ stores = <<>>
    /\ IdleACF
    /\ IdleSh
    /\ IdleSel
    /\ pcCre = "loop"
    /\ start_k \in (MinKSize - 1)..LowK
    /\ stop_k \in start_k..(start_k + MaxSpan)
    /\ relEntropies = <<>> /\ cre = <<>>
    /\ suggestKmer = NoResult

\* the k that pass i (1-based) of the loop of lines 387-388 hands to
\* calculate_relative_entropy
CreCallK(i) == start_k + i

\* one pass of the loop of lines 387-388
CreRelativeEntropy ==
    /\ pcCre = "loop" /\ Len(relEntropies) < stop_k - start_k
    /\ \E v \in REVals : relEntropies' = Append(relEntropies, v)
    /\ UNCHANGED <<pcCre, start_k, stop_k, cre, suggestKmer>>
    /\ UNCHANGED <<reVars, acfVars, shVars, selVars, ofcVars>>

\* lines 390-399
CreFinish ==
    /\ pcCre = "loop" /\ Len(relEntropies) = stop_k - start_k
    /\ cre' = CreSeries(relEntropies)
    /\ suggestKmer' \in find_yintercept(Arange(start_k, stop_k), cre', CrePercent)
    /\ pcCre' = "done"
    /\ UNCHANGED <<start_k, stop_k, relEntropies>>
    /\ UNCHANGED <<reVars, acfVars, shVars, selVars, ofcVars>>

NextCre ==
    \/ CreRelativeEntropy
    \/ CreFinish

SpecCre == InitCre /\ [][NextCre]_vars

(* C8: the CRE series has one entry per k in [start_k, stop_k], entry i is *)
(* the sum of the zero-clipped relative entropies of all k > start_k + i,  *)
(* and the series is non-increasing in k.                                  *)
ClippedRE(k) == IF relEntropies[k - start_k] < 0 THEN 0 ELSE relEntropies[k - start_k]

RECURSIVE SumAbove(_)
SumAbove(k) == IF k >= stop_k THEN 0 ELSE ClippedRE(k + 1) + SumAbove(k + 1)

C8_CreSuffixSums ==
    (pcCre = "done") =>
        /\ Len(cre) = stop_k - start_k + 1
        /\ \A i \in 0..(stop_k - start_k) : cre[i + 1] = SumAbove(start_k + i)
        /\ \A i \in 1..(Len(cre) - 1) : cre[i + 1] <= cre[i]

C8_Witness ==
    /\ pcCre = "done"
    /\ Len(cre) = 4
    /\ relEntropies[2] < 0
    /\ cre[1] = 2 /\ cre[2] = 1 /\ cre[3] = 1 /\ cre[4] = 0

(* C15: the last entry of the CRE series is 0 and the first is the         *)
(* maximum, so min(cre) <= max(cre) / 10 and the selector's range check    *)
(* never fails from calculate_cre_kmer; the threshold search finds no      *)
(* crossing for the all-zero series and for no other.                      *)
AllZero(y) == \A i \in 1..Len(y) : y[i] = 0

C15_CreNeverRangeExhausted ==
    (pcCre = "done") =>
        /\ cre[Len(cre)] = 0
        /\ cre[1] = MaxOf(cre)
        /\ MinOf(cre) * CrePercent <= MaxOf(cre)
        /\ suggestKmer.kind # "NotImplementedError"
        /\ (suggestKmer.kind = "IndexError") => AllZero(cre)
        /\ (AllZero(cre) /\ Len(cre) >= MinCubicPoints) => (suggestKmer.kind = "IndexError")

\* a series that falls from 3 to 0 over k = LowK .. LowK + 3: the crossing is found
C15_Witness ==
    /\ pcCre = "done" /\ start_k = LowK
    /\ cre = <<3, 2, 1, 0>>
    /\ \E i \in 1..Len(relEntropies) : relEntropies[i] > 0
    /\ ~RangeExhausted(cre, CrePercent)
    /\ suggestKmer.kind = "value"
    /\ (LowK + 2) * suggestKmer.x[2] < suggestKmer.x[1]
    /\ suggestKmer.x[1] < (LowK + 3) * suggestKmer.x[2]

----------------------------------------------------------------------------
(* calculate_ofc_kmer (lines 422-449).  The helper _calculate_ocf the loop *)
(* calls is defined nowhere in the package (its text, lines 355-368, is    *)
(* commented out), so the first pass of the loop raises NameError.  With   *)
(* an empty k range the loop body is skipped and lines 441-447 run on      *)
(* empty arrays.                                                           *)
OfcCutoff == 80

\* np.sign(percentage - cutoff), percentage = (1 - o / a) * 100, for a > 0
OfcSign(a, o) == Sign(100 * (a - o) - OfcCutoff * a)

\* np.argwhere(np.diff(np.sign(percentage - cutoff)) < 0), 0-based positions
Descents(allPossibleKmer, ocf) ==
    {t \in 0..(Len(ocf) - 2) :
        OfcSign(allPossibleKmer[t + 2], ocf[t + 2])
            - OfcSign(allPossibleKmer[t + 1], ocf[t + 1]) < 0}

\* lines 441-449 on the collected arrays
OfcSelect(allPossibleKmer, ocf, a) ==
    LET idx == Descents(allPossibleKmer, ocf)
    IN  IF idx = {} THEN NoOfc("IndexError")
        ELSE [kind       |-> "value",
              percentage |-> [t \in 1..Len(ocf) |->
                                <<100 * (allPossibleKmer[t] - ocf[t]), allPossibleKmer[t]>>],
              kmer       |-> Max(idx) + a]

calculate_ofc_kmer(sts, a, b) ==
    IF a <= b THEN NoOfc("NameError")
    ELSE OfcSelect(<<>>, <<>>, a)

InitOfc ==
    /\ IdleRE
    /\ IdleACF
    /\ IdleSh
    /\ IdleSel
    /\ IdleCre
    /\ \E n \in 1..MaxGenomes : stores \in [1..n -> AllStores]
    /\ pcOfc = "start"
    /\ ofc_start_k = LowK
    /\ ofc_stop_k \in (LowK - 1)..(LowK + MaxSpan)
    /\ ofcResult = NoOfc("none")

CalculateOfcKmer ==
    /\ pcOfc = "start"
    /\ ofcResult' = calculate_ofc_kmer(stores, ofc_start_k, ofc_stop_k)
    /\ pcOfc' = "done"
    /\ UNCHANGED <<ofc_start_k, ofc_stop_k>>
    /\ UNCHANGED <<reVars, acfVars, shVars, selVars, creVars>>

NextOfc == CalculateOfcKmer

SpecOfc == InitOfc /\ [][NextOfc]_vars

(* C11: for every k range calculate_ofc_kmer returns the percentage        *)
(* series, one percentage per k of the range, together with a k of the     *)
(* range: the one at the last sign change of (percentage - 80).            *)
C11_OfcReturnsLastCrossing ==
    (pcOfc = "done" /\ ofc_start_k <= ofc_stop_k) =>
        /\ ofcResult.kind = "value"
        /\ Len(ofcResult.percentage) = ofc_stop_k - ofc_start_k + 1
        /\ ofcResult.kmer \in ofc_start_k..ofc_stop_k

----------------------------------------------------------------------------
(* All components together. *)
Init == InitRE \/ InitACF \/ InitSh \/ InitSel \/ InitCre \/ InitOfc

Next == NextRE \/ NextACF \/ NextSh \/ NextSel \/ NextCre \/ NextOfc

Spec == Init /\ [][Next]_vars

(* C12: the callers of the join engine reject every k with k - 2 < 1: no   *)
(* order below 1 is asked of the signature store, _calculate_re_vectorize  *)
(* is entered only with k >= 3, and calculate_cre_kmer hands only such k   *)
(* to calculate_relative_entropy.                                          *)
C12_CallersRejectSmallK ==
    /\ \A p \in 1..Len(requested) : requested[p] >= 1
    /\ (pcRE \in {"start", "done"}) => (ksize - 2 >= 1)
    /\ \A i \in 1..Len(relEntropies) : CreCallK(i) - 2 >= 1

====
